---- MODULE Spec2Model ----
(***************************************************************************)
(* Model of tempest-exporter (src/main.go): a process that fetches a       *)
(* weather observation from the WeatherFlow API every 15 seconds, overlays *)
(* the indoor readings on their outdoor counterparts (mapIndoor) and sets  *)
(* one gauge per observation field in a registry served on /metrics.       *)
(*                                                                         *)
(* float64 values are modelled by integers (integer-valued floats): the    *)
(* program only copies them, tests them for zero and formats them. NaN and *)
(* negative zero, on which reflect's IsZero depends on the Go release, are *)
(* outside the values modelled.                                            *)
(* The type MetricsMap and its methods Register and SetAll are declared in *)
(* a file of the repository that is not among the sources; they are        *)
(* modelled from sections 3, 4.3 and 5 of the specification.               *)
(***************************************************************************)
EXTENDS Integers, Sequences, FiniteSets, TLC

\* ---------------------------------------------------------------- bounds
\* Largest number of elements of the "obs" array of a fetched response.
MaxObs == 1
\* Largest number of non-zero fields of an input record of the overlay runs.
MaxNonZero == 2

\* ------------------------------------------------------------ record model
\* type observation struct: Go field name, json tag and kind, in declaration order.
Fields == <<
    [name |-> "AirDensity", tag |-> "air_density", kind |-> "float64"],
    [name |-> "AirDensityIndoor", tag |-> "air_density_indoor", kind |-> "float64"],
    [name |-> "AirTemperature", tag |-> "air_temperature", kind |-> "float64"],
    [name |-> "AirTemperatureIndoor", tag |-> "air_temperature_indoor", kind |-> "float64"],
    [name |-> "BarometricPressure", tag |-> "barometric_pressure", kind |-> "float64"],
    [name |-> "BarometricPressureIndoor", tag |-> "barometric_pressure_indoor", kind |-> "float64"],
    [name |-> "Brightness", tag |-> "brightness", kind |-> "float64"],
    [name |-> "DeltaT", tag |-> "delta_t", kind |-> "float64"],
    [name |-> "DeltaTIndoor", tag |-> "delta_t_indoor", kind |-> "float64"],
    [name |-> "DewPoint", tag |-> "dew_point", kind |-> "float64"],
    [name |-> "DewPointIndoor", tag |-> "dew_point_indoor", kind |-> "float64"],
    [name |-> "FeelsLike", tag |-> "feels_like", kind |-> "float64"],
    [name |-> "FeelsLikeIndoor", tag |-> "feels_like_indoor", kind |-> "float64"],
    [name |-> "HeatIndex", tag |-> "heat_index", kind |-> "float64"],
    [name |-> "HeatIndexIndoor", tag |-> "heat_index_indoor", kind |-> "float64"],
    [name |-> "LightningStrikeCount", tag |-> "lightning_strike_count", kind |-> "float64"],
    [name |-> "LightningStrikeCountIndoor", tag |-> "lightning_strike_count_indoor", kind |-> "float64"],
    [name |-> "LightningStrikeCountLast1hr", tag |-> "lightning_strike_count_last_1hr", kind |-> "float64"],
    [name |-> "LightningStrikeCountLast1hrIndoor", tag |-> "lightning_strike_count_last_1hr_indoor", kind |-> "float64"],
    [name |-> "LightningStrikeCountLast3hr", tag |-> "lightning_strike_count_last_3hr", kind |-> "float64"],
    [name |-> "LightningStrikeCountLast3hrIndoor", tag |-> "lightning_strike_count_last_3hr_indoor", kind |-> "float64"],
    [name |-> "LightningStrikeLastDistance", tag |-> "lightning_strike_last_distance", kind |-> "float64"],
    [name |-> "LightningStrikeLastDistanceIndoor", tag |-> "lightning_strike_last_distance_indoor", kind |-> "float64"],
    [name |-> "LightningStrikeLastEpoch", tag |-> "lightning_strike_last_epoch", kind |-> "float64"],
    [name |-> "LightningStrikeLastEpochIndoor", tag |-> "lightning_strike_last_epoch_indoor", kind |-> "float64"],
    [name |-> "Precip", tag |-> "precip", kind |-> "float64"],
    [name |-> "PrecipAccumLast1hr", tag |-> "precip_accum_last_1hr", kind |-> "float64"],
    [name |-> "PrecipAccumLocalDay", tag |-> "precip_accum_local_day", kind |-> "float64"],
    [name |-> "PrecipAccumLocalYesterday", tag |-> "precip_accum_local_yesterday", kind |-> "float64"],
    [name |-> "PrecipAccumLocalYesterdayFinal", tag |-> "precip_accum_local_yesterday_final", kind |-> "float64"],
    [name |-> "PrecipAnalysisTypeYesterday", tag |-> "precip_analysis_type_yesterday", kind |-> "float64"],
    [name |-> "PrecipMinutesLocalDay", tag |-> "precip_minutes_local_day", kind |-> "float64"],
    [name |-> "PrecipMinutesLocalYesterday", tag |-> "precip_minutes_local_yesterday", kind |-> "float64"],
    [name |-> "PrecipMinutesLocalYesterdayFinal", tag |-> "precip_minutes_local_yesterday_final", kind |-> "float64"],
    [name |-> "PressureTrend", tag |-> "pressure_trend", kind |-> "string"],
    [name |-> "PressureTrendIndoor", tag |-> "pressure_trend_indoor", kind |-> "string"],
    [name |-> "RelativeHumidity", tag |-> "relative_humidity", kind |-> "float64"],
    [name |-> "RelativeHumidityIndoor", tag |-> "relative_humidity_indoor", kind |-> "float64"],
    [name |-> "SeaLevelPressure", tag |-> "sea_level_pressure", kind |-> "float64"],
    [name |-> "SeaLevelPressureIndoor", tag |-> "sea_level_pressure_indoor", kind |-> "float64"],
    [name |-> "SolarRadiation", tag |-> "solar_radiation", kind |-> "float64"],
    [name |-> "StationPressure", tag |-> "station_pressure", kind |-> "float64"],
    [name |-> "StationPressureIndoor", tag |-> "station_pressure_indoor", kind |-> "float64"],
    [name |-> "Timestamp", tag |-> "timestamp", kind |-> "float64"],
    [name |-> "Uv", tag |-> "uv", kind |-> "float64"],
    [name |-> "WetBulbTemperature", tag |-> "wet_bulb_temperature", kind |-> "float64"],
    [name |-> "WetBulbTemperatureIndoor", tag |-> "wet_bulb_temperature_indoor", kind |-> "float64"],
    [name |-> "WindAvg", tag |-> "wind_avg", kind |-> "float64"],
    [name |-> "WindChill", tag |-> "wind_chill", kind |-> "float64"],
    [name |-> "WindChillIndoor", tag |-> "wind_chill_indoor", kind |-> "float64"],
    [name |-> "WindDirection", tag |-> "wind_direction", kind |-> "float64"],
    [name |-> "WindGust", tag |-> "wind_gust", kind |-> "float64"],
    [name |-> "WindLull", tag |-> "wind_lull", kind |-> "float64"]
>>

NumField == Len(Fields)
FieldNames == {Fields[i].name : i \in 1..NumField}
KindOf == [n \in FieldNames |-> Fields[CHOOSE i \in 1..NumField : Fields[i].name = n].kind]
TagOf == [n \in FieldNames |-> Fields[CHOOSE i \in 1..NumField : Fields[i].name = n].tag]

\* The zero value of a field (var o observation).
ZeroOf(n) == IF KindOf[n] = "string" THEN "" ELSE 0
ZeroObservation == [n \in FieldNames |-> ZeroOf(n)]

\* reflect.Value.IsZero on the field named n holding v.
IsZero(n, v) == IF KindOf[n] = "string" THEN v = "" ELSE v = 0

\* One iteration of the loop of mapIndoor, for the field fieldName.
overlayField_Always(obs, fieldName) ==
    LET indoorName == fieldName \o "Indoor"
    IN  IF indoorName \in FieldNames
        THEN [obs EXCEPT ![fieldName] = obs[indoorName]]
        ELSE obs

overlayField_FloatOnly(obs, fieldName) ==
    LET indoorName == fieldName \o "Indoor"
    IN  IF /\ indoorName \in FieldNames
           /\ KindOf[fieldName] = "float64"
           /\ ~IsZero(indoorName, obs[indoorName])
        THEN [obs EXCEPT ![fieldName] = obs[indoorName]]
        ELSE obs

overlayField(obs, fieldName) ==
    LET indoorName == fieldName \o "Indoor"
    IN  IF /\ indoorName \in FieldNames               \* indoorValue.IsValid()
           /\ ~IsZero(indoorName, obs[indoorName])    \* !indoorValue.IsZero()
        THEN [obs EXCEPT ![fieldName] = obs[indoorName]]
        ELSE obs

RECURSIVE mapIndoorFrom(_, _)
\* The iterations i..NumField of the loop of mapIndoor. (The comparison has
\* TLC evaluate the record of one iteration before it starts the next.)
mapIndoorFrom(obs, i) ==
    IF i > NumField THEN obs
    ELSE LET next == overlayField(obs, Fields[i].name)
         IN  IF next = obs THEN mapIndoorFrom(obs, i + 1)
                           ELSE mapIndoorFrom(next, i + 1)

\* func mapIndoor(obs *observation): the record the pointer holds afterwards.
mapIndoor(obs) == mapIndoorFrom(obs, 1)

\* ------------------------------------------------------------ label values
DigitChars == <<"0", "1", "2", "3", "4", "5", "6", "7", "8", "9">>

RECURSIVE NatStr(_)
NatStr(n) ==
    IF n < 10 THEN DigitChars[n + 1]
    ELSE NatStr(n \div 10) \o DigitChars[(n % 10) + 1]

\* strconv.Itoa
Itoa(n) == IF n < 0 THEN "-" \o NatStr(-n) ELSE NatStr(n)

RECURSIVE StripZeros(_)
StripZeros(n) == IF n > 0 /\ n % 10 = 0 THEN StripZeros(n \div 10) ELSE n

RECURSIVE NumDigits(_)
NumDigits(n) == IF n < 10 THEN 1 ELSE 1 + NumDigits(n \div 10)

RECURSIVE Pow10(_)
Pow10(k) == IF k = 0 THEN 1 ELSE 10 * Pow10(k - 1)

RECURSIVE Padded(_, _)
\* the decimal digits of n, left-padded with zeros to width w
Padded(n, w) == IF w = 0 THEN "" ELSE Padded(n \div 10, w - 1) \o DigitChars[(n % 10) + 1]

\* strconv.FormatFloat(f, 'E', -1, 64) of an integer-valued f: the shortest
\* mantissa d[.ddd] and a two-digit (at least) signed exponent.
FormatFloat(f) ==
    LET a == IF f < 0 THEN -f ELSE f
        m == StripZeros(a)
        w == NumDigits(m) - 1
        e == NumDigits(a) - 1
        mant == DigitChars[(m \div Pow10(w)) + 1]
                  \o (IF w > 0 THEN "." \o Padded(m % Pow10(w), w) ELSE "")
    IN  (IF f < 0 THEN "-" ELSE "") \o mant \o "E+"
          \o (IF e < 10 THEN "0" ELSE "") \o NatStr(e)

LabelKeys == {"station_id", "station_name", "public_name", "latitude",
              "longitude", "timezone", "elevation"}

\* func (r *response) parseLabels() prometheus.Labels
parseLabels_SwappedNames(r) ==
    [k \in LabelKeys |->
        CASE k = "station_id"   -> Itoa(r.StationId)
          [] k = "station_name" -> r.PublicName
          [] k = "public_name"  -> r.StationName
          [] k = "latitude"     -> FormatFloat(r.Latitude)
          [] k = "longitude"    -> FormatFloat(r.Longitude)
          [] k = "timezone"     -> r.Timezone
          [] k = "elevation"    -> FormatFloat(r.Elevation)]

parseLabels(r) ==
    [k \in LabelKeys |->
        CASE k = "station_id"   -> Itoa(r.StationId)
          [] k = "station_name" -> r.StationName
          [] k = "public_name"  -> r.PublicName
          [] k = "latitude"     -> FormatFloat(r.Latitude)
          [] k = "longitude"    -> FormatFloat(r.Longitude)
          [] k = "timezone"     -> r.Timezone
          [] k = "elevation"    -> FormatFloat(r.Elevation)]

\* ------------------------------------------------------------------ fetch
\* var r response: the zero value
ZeroResponse ==
    [StationId |-> 0, StationName |-> "", PublicName |-> "", Latitude |-> 0,
     Longitude |-> 0, Timezone |-> "", Elevation |-> 0,
     Status |-> [Code |-> 0], Obs |-> <<>>]

\* Observations the API returns in the system runs.
SampleObs ==
    {[ZeroObservation EXCEPT !["AirTemperature"] = a,
                             !["AirTemperatureIndoor"] = ai,
                             !["RelativeHumidity"] = h] :
        a \in {0, 15}, ai \in {0, 18}, h \in {0, 80}}

ObsSeqs == UNION {[1..n -> SampleObs] : n \in 0..MaxObs}

Stations ==
    {[ZeroResponse EXCEPT !.StationId = 42, !.StationName = "Home",
                          !.PublicName = "Home PWS", !.Latitude = 45,
                          !.Longitude = -120, !.Timezone = "America/Denver",
                          !.Elevation = 1050],
     [ZeroResponse EXCEPT !.StationId = 7, !.StationName = "Barn",
                          !.PublicName = "Barn PWS", !.Latitude = -8,
                          !.Longitude = 3, !.Timezone = "UTC",
                          !.Elevation = 0]}

Responses == {[s EXCEPT !.Obs = obs] : s \in Stations, obs \in ObsSeqs}

\* The decoded body of an API error reply: only status.status_code is present.
ErrorBody == [ZeroResponse EXCEPT !.Status = [Code |-> 401]]

\* What one http.Get can bring back: a transport error, or a reply with a
\* status code and a body that is JSON (decoding to r) or is not.
FetchOutcomes ==
    {[net |-> "error", status |-> 0, body |-> "none", r |-> ZeroResponse]}
    \cup {[net |-> "ok", status |-> s, body |-> "malformed", r |-> ZeroResponse] :
            s \in {200, 502}}
    \cup {[net |-> "ok", status |-> 200, body |-> "json", r |-> r] : r \in Responses}
    \cup {[net |-> "ok", status |-> 401, body |-> "json", r |-> ErrorBody]}

Meta(at, out) == [at |-> at, net |-> out.net, status |-> out.status, body |-> out.body]
NoOutcome == [at |-> "none", net |-> "none", status |-> 0, body |-> "none"]

\* func getTempestData(t, s string) (response, error), on the outcome of its http.Get
getTempestData_NoDecodeError(out) ==
    IF out.net = "error"
    THEN [r |-> ZeroResponse, err |-> "error getting data from tempest station"]
    ELSE [r |-> out.r, err |-> "nil"]

getTempestData(out) ==
    IF out.net = "error"
    THEN [r |-> ZeroResponse, err |-> "error getting data from tempest station"]
    ELSE IF out.body = "malformed"
    THEN [r |-> ZeroResponse, err |-> "error parsing json into response struct"]
    ELSE [r |-> out.r, err |-> "nil"]

\* --------------------------------------------------------------- registry
\* const ns, ss
ns == "tempest"
ss == "station"
MetricName(tag) == ns \o "_" \o ss \o "_" \o tag

IsIndoor(n) == \E m \in FieldNames : n = m \o "Indoor"

\* The fields that get a series: the numeric fields that are not indoor variants.
IsSeriesField(f) == f.kind = "float64" /\ ~IsIndoor(f.name)
SeriesOrder == SelectSeq(Fields, IsSeriesField)
SeriesTags == {SeriesOrder[i].tag : i \in 1..Len(SeriesOrder)}

EmptyRegistry == [t \in {} |-> 0]
NilLabels == [k \in {} |-> ""]

\* metrics.Register(labelNames): one series per field, values unset.
Register(m, names) ==
    [t \in SeriesTags |-> [value |-> 0, labels |-> [k \in names |-> ""], set |-> FALSE]]

\* Register on a registry that already has series, or with no field, is fatal.
RegisterFails(m) == DOMAIN m # {} \/ SeriesTags = {}

\* The update of one series by metrics.SetAll(o, labels).
SetOne(m, tag, v, l) ==
    IF tag \in DOMAIN m
    THEN [m EXCEPT ![tag] = [value |-> v, labels |-> l, set |-> TRUE]]
    ELSE m

\* ------------------------------------------------------------------ state
VARIABLES
    token,          \* os.Getenv("WEATHERFLOW_API_TOKEN")
    station,        \* os.Getenv("WEATHERFLOW_STATION_ID")
    mainPc,         \* main goroutine: "init" (in init()), "main", "serving"
    exit,           \* "" while the process runs; "fatal" after log.Fatal, "returned" after main returned
    labels,         \* var labels prometheus.Labels
    labelNames,     \* var labelNames []string, as the set of its elements
    metrics,        \* var metrics MetricsMap: tag -> series
    gor,            \* the goroutines running getDatas: <<[pc, o, i]>>
    scraped,        \* what a /metrics request has just read, if that is the latest step
    lastOutcome,    \* history: the outcome of the latest http.Get, and whether init or the loop made it
    seen,           \* history: the latest decoded response, cut to Obs[0]
    pre,            \* history: the registry as the loop iteration in progress found it
    registerCount,  \* history: number of calls of metrics.Register
    inObs,          \* overlay runs: the record given to mapIndoor
    outObs,         \* overlay runs: the record after mapIndoor
    resolved        \* overlay runs: mapIndoor has been called

vars == <<token, station, mainPc, exit, labels, labelNames, metrics, gor,
          scraped, lastOutcome, seen, pre, registerCount, inObs, outObs, resolved>>

overlayVars == <<inObs, outObs, resolved>>

NoScrape == [t \in {} |-> 0]

Init ==
    /\ token \in {"", "tok"}
    /\ station \in {"", "1234"}
    /\ mainPc = "init"
    /\ exit = ""
    /\ labels = NilLabels
    /\ labelNames = {}
    /\ metrics = EmptyRegistry
    /\ gor = <<>>
    /\ scraped = NoScrape
    /\ lastOutcome = NoOutcome
    /\ seen = ZeroResponse
    /\ pre = EmptyRegistry
    /\ registerCount = 0
    /\ inObs = ZeroObservation
    /\ outObs = ZeroObservation
    /\ resolved = FALSE

\* func init(), with out the outcome of its http.Get
InitStep_NoTokenCheck(out) ==
    /\ mainPc = "init" /\ exit = ""
    /\ scraped' = NoScrape
    /\ UNCHANGED <<token, station, gor, seen, overlayVars>>
    /\ IF station = ""
       THEN /\ exit' = "fatal"
            /\ UNCHANGED <<mainPc, labels, labelNames, metrics, lastOutcome, pre,
                           registerCount>>
       ELSE LET res == getTempestData(out)
            IN  /\ lastOutcome' = Meta("init", out)
                /\ IF res.err # "nil" \/ RegisterFails(metrics)
                   THEN /\ exit' = "fatal"
                        /\ UNCHANGED <<mainPc, labels, labelNames, metrics, pre,
                                       registerCount>>
                   ELSE /\ labels' = parseLabels(res.r)
                        /\ labelNames' = DOMAIN parseLabels(res.r)
                        /\ metrics' = Register(metrics, DOMAIN parseLabels(res.r))
                        /\ pre' = Register(metrics, DOMAIN parseLabels(res.r))
                        /\ registerCount' = registerCount + 1
                        /\ mainPc' = "main"
                        /\ UNCHANGED exit

InitStep_NoRegister(out) ==
    /\ mainPc = "init" /\ exit = ""
    /\ scraped' = NoScrape
    /\ UNCHANGED <<token, station, gor, seen, overlayVars>>
    /\ IF token = "" \/ station = ""
       THEN /\ exit' = "fatal"
            /\ UNCHANGED <<mainPc, labels, labelNames, metrics, lastOutcome, pre,
                           registerCount>>
       ELSE LET res == getTempestData(out)
            IN  /\ lastOutcome' = Meta("init", out)
                /\ IF res.err # "nil"
                   THEN /\ exit' = "fatal"
                        /\ UNCHANGED <<mainPc, labels, labelNames, metrics, pre,
                                       registerCount>>
                   ELSE /\ labels' = parseLabels(res.r)
                        /\ labelNames' = DOMAIN parseLabels(res.r)
                        /\ mainPc' = "main"
                        /\ UNCHANGED <<exit, metrics, pre, registerCount>>

InitStep(out) ==
    /\ mainPc = "init" /\ exit = ""
    /\ scraped' = NoScrape
    /\ UNCHANGED <<token, station, gor, seen, overlayVars>>
    /\ IF token = "" \/ station = ""
       THEN \* log.Fatalln("please set ...")
            /\ exit' = "fatal"
            /\ UNCHANGED <<mainPc, labels, labelNames, metrics, lastOutcome, pre,
                           registerCount>>
       ELSE LET res == getTempestData(out)
            IN  /\ lastOutcome' = Meta("init", out)
                /\ IF res.err # "nil" \/ RegisterFails(metrics)
                   THEN \* log.Fatal(err)
                        /\ exit' = "fatal"
                        /\ UNCHANGED <<mainPc, labels, labelNames, metrics, pre,
                                       registerCount>>
                   ELSE /\ labels' = parseLabels(res.r)
                        /\ labelNames' = DOMAIN parseLabels(res.r)
                        /\ metrics' = Register(metrics, DOMAIN parseLabels(res.r))
                        /\ pre' = Register(metrics, DOMAIN parseLabels(res.r))
                        /\ registerCount' = registerCount + 1
                        /\ mainPc' = "main"
                        /\ UNCHANGED exit

NewLoop == [pc |-> "fetch", o |-> ZeroObservation, i |-> 0]

\* func main(): go getDatas(), then http.ListenAndServe starts serving /metrics
MainStep_TwoLoops ==
    /\ mainPc = "main" /\ exit = ""
    /\ gor' = gor \o <<NewLoop, NewLoop>>
    /\ mainPc' = "serving"
    /\ scraped' = NoScrape
    /\ UNCHANGED <<token, station, exit, labels, labelNames, metrics,
                   lastOutcome, seen, pre, registerCount, overlayVars>>

MainStep ==
    /\ mainPc = "main" /\ exit = ""
    /\ gor' = Append(gor, NewLoop)
    /\ mainPc' = "serving"
    /\ scraped' = NoScrape
    /\ UNCHANGED <<token, station, exit, labels, labelNames, metrics,
                   lastOutcome, seen, pre, registerCount, overlayVars>>

\* http.ListenAndServe returns (it only returns on error) and main returns with it.
ListenAndServeReturns ==
    /\ mainPc = "serving" /\ exit = ""
    /\ exit' = "returned"
    /\ scraped' = NoScrape
    /\ UNCHANGED <<token, station, mainPc, labels, labelNames, metrics, gor,
                   lastOutcome, seen, pre, registerCount, overlayVars>>

\* promhttp.Handler() serving GET /metrics: the registry as a request reads it,
\* every series under its exposed name.
Scrape ==
    /\ mainPc = "serving" /\ exit = ""
    /\ scraped' = metrics
    /\ UNCHANGED <<token, station, mainPc, exit, labels, labelNames, metrics,
                   gor, lastOutcome, seen, pre, registerCount, overlayVars>>

\* getDatas: the observation one cycle hands to metrics.SetAll, if any:
\*   if len(r.Obs) > 0 { o := r.Obs[0]; mapIndoor(&o); ... }
cycleObs_Raw(r) == IF Len(r.Obs) > 0 THEN <<r.Obs[1]>> ELSE <<>>

cycleObs_ZeroOnEmpty(r) ==
    IF Len(r.Obs) > 0 THEN <<mapIndoor(r.Obs[1])>> ELSE <<ZeroObservation>>

cycleObs(r) == IF Len(r.Obs) > 0 THEN <<mapIndoor(r.Obs[1])>> ELSE <<>>

\* The response, cut to the only element of Obs a cycle reads.
CutToFirst(r) == [r EXCEPT !.Obs = SubSeq(r.Obs, 1, IF Len(r.Obs) > 0 THEN 1 ELSE 0)]

\* getDatas, one iteration up to the call of SetAll: the fetch, log.Fatal on
\* an error, labels = r.parseLabels(), and the overlay of Obs[0].
GetDatasFetch(g, out) ==
    /\ exit = ""
    /\ g \in DOMAIN gor /\ gor[g].pc = "fetch"
    /\ scraped' = NoScrape
    /\ lastOutcome' = Meta("loop", out)
    /\ UNCHANGED <<token, station, mainPc, labelNames, metrics, pre, registerCount,
                   overlayVars>>
    /\ LET res == getTempestData(out)
       IN  IF res.err # "nil"
           THEN /\ exit' = "fatal"
                /\ UNCHANGED <<labels, gor, seen>>
           ELSE /\ labels' = parseLabels(res.r)
                /\ seen' = CutToFirst(res.r)
                /\ gor' = [gor EXCEPT ![g] =
                             IF Len(cycleObs(res.r)) > 0
                             THEN [pc |-> "apply", o |-> cycleObs(res.r)[1], i |-> 1]
                             ELSE [pc |-> "sleep", o |-> ZeroObservation, i |-> 0]]
                /\ UNCHANGED exit

\* metrics.SetAll(o, labels): the update of the next series.
SetAllStep(g) ==
    /\ exit = ""
    /\ g \in DOMAIN gor /\ gor[g].pc = "apply"
    /\ LET f == SeriesOrder[gor[g].i]
       IN  metrics' = SetOne(metrics, f.tag, gor[g].o[f.name], labels)
    /\ gor' = [gor EXCEPT ![g] =
                 IF @.i = Len(SeriesOrder)
                 THEN [pc |-> "sleep", o |-> @.o, i |-> 0]
                 ELSE [@ EXCEPT !.i = @ + 1]]
    /\ scraped' = NoScrape
    /\ UNCHANGED <<token, station, mainPc, exit, labels, labelNames,
                   lastOutcome, seen, pre, registerCount, overlayVars>>

\* time.Sleep(time.Second * 15), and the loop goes round.
Sleep(g) ==
    /\ exit = ""
    /\ g \in DOMAIN gor /\ gor[g].pc = "sleep"
    /\ gor' = [gor EXCEPT ![g] = NewLoop]
    /\ scraped' = NoScrape
    /\ pre' = metrics
    /\ UNCHANGED <<token, station, mainPc, exit, labels, labelNames, metrics,
                   lastOutcome, seen, registerCount, overlayVars>>

Next ==
    \/ \E out \in FetchOutcomes : InitStep(out)
    \/ MainStep
    \/ ListenAndServeReturns
    \/ Scrape
    \/ \E g \in DOMAIN gor, out \in FetchOutcomes : GetDatasFetch(g, out)
    \/ \E g \in DOMAIN gor : SetAllStep(g)
    \/ \E g \in DOMAIN gor : Sleep(g)

Spec == Init /\ [][Next]_vars

\* ------------------------------------------------------------ overlay runs
\* mapIndoor on its own: the input is any record with at most MaxNonZero
\* fields set, a base field to BaseSample and an indoor field to IndoorSample.
SampleOf(n) ==
    IF KindOf[n] = "string"
    THEN (IF IsIndoor(n) THEN "rising" ELSE "steady")
    ELSE (IF IsIndoor(n) THEN 25 ELSE 10)

RECURSIVE RecordsWith(_)
RecordsWith(k) ==
    IF k = 0 THEN {ZeroObservation}
    ELSE LET less == RecordsWith(k - 1)
         IN  less \cup {[rec EXCEPT ![n] = SampleOf(n)] : rec \in less, n \in FieldNames}

InitResolve ==
    /\ token = "tok"
    /\ station = "1234"
    /\ mainPc = "init"
    /\ exit = ""
    /\ labels = NilLabels
    /\ labelNames = {}
    /\ metrics = EmptyRegistry
    /\ gor = <<>>
    /\ scraped = NoScrape
    /\ lastOutcome = NoOutcome
    /\ seen = ZeroResponse
    /\ pre = EmptyRegistry
    /\ registerCount = 0
    /\ inObs \in RecordsWith(MaxNonZero)
    /\ outObs = inObs
    /\ resolved = FALSE

\* mapIndoor(&o)
ResolveCall ==
    /\ ~resolved
    /\ outObs' = mapIndoor(inObs)
    /\ resolved' = TRUE
    /\ UNCHANGED <<token, station, mainPc, exit, labels, labelNames, metrics, gor,
                   scraped, lastOutcome, seen, pre, registerCount, inObs>>

NextResolve == ResolveCall

SpecResolve == InitResolve /\ [][NextResolve]_vars

\* ----------------------------------------------------------------- claims
HasIndoor(n) == (n \o "Indoor") \in FieldNames
SeriesIdx == 1..Len(SeriesOrder)

\* The refresh loop has just completed a cycle that applied an observation.
AfterApply(g) == gor[g].pc = "sleep" /\ Len(seen.Obs) > 0

\* C1: after mapIndoor, every numeric field X with a counterpart XIndoor holds
\* the input XIndoor when that was non-zero and the input X otherwise; with
\* every indoor field zero, every base field keeps its input value.
C1_OverlayRule ==
    resolved =>
      /\ \A n \in FieldNames :
            (KindOf[n] = "float64" /\ HasIndoor(n)) =>
               outObs[n] = IF inObs[n \o "Indoor"] # 0
                           THEN inObs[n \o "Indoor"] ELSE inObs[n]
      /\ (\A n \in FieldNames : IsIndoor(n) => inObs[n] = ZeroOf(n)) =>
            \A n \in FieldNames : ~IsIndoor(n) => outObs[n] = inObs[n]

C1_Witness ==
    /\ resolved
    /\ inObs["AirTemperature"] = 10 /\ inObs["AirTemperatureIndoor"] = 25
    /\ outObs["AirTemperature"] = 25

\* C2 as claimed: mapIndoor leaves unmodified every field without an indoor
\* counterpart and every text field, PressureTrend included.
C2_TextUntouched ==
    resolved =>
      \A n \in FieldNames :
          (KindOf[n] = "string" \/ ~HasIndoor(n)) => outObs[n] = inObs[n]

\* C2 as amended: mapIndoor leaves unmodified every field without an indoor
\* counterpart; the text field PressureTrend is overlaid like a numeric one: it
\* keeps its input value when PressureTrendIndoor is empty and takes the value
\* of PressureTrendIndoor otherwise.
C2_Frame ==
    resolved =>
      /\ \A n \in FieldNames : ~HasIndoor(n) => outObs[n] = inObs[n]
      /\ outObs["PressureTrend"] = IF inObs["PressureTrendIndoor"] = ""
                                   THEN inObs["PressureTrend"]
                                   ELSE inObs["PressureTrendIndoor"]

C2_Witness ==
    /\ resolved
    /\ inObs["PressureTrend"] = "steady" /\ inObs["PressureTrendIndoor"] = "rising"
    /\ outObs["PressureTrend"] = "rising"
    /\ outObs["PressureTrendIndoor"] = "rising"

\* C3: when a refresh cycle whose fetch returned an observation has completed,
\* every series holds the overlaid value of its field in Obs[0] and the labels
\* of that fetch, whatever it held before; with air_temperature 15 and indoor
\* 18, relative_humidity 80 and indoor 0, station 42, the series read 18 and 80
\* under station_id "42".
C3_CycleResult ==
    \A g \in DOMAIN gor :
      AfterApply(g) =>
        LET in == seen.Obs[1]
        IN  /\ \A i \in SeriesIdx :
                 LET n == SeriesOrder[i].name
                     s == metrics[SeriesOrder[i].tag]
                 IN  /\ s.set
                     /\ s.value = IF HasIndoor(n) /\ in[n \o "Indoor"] # 0
                                  THEN in[n \o "Indoor"] ELSE in[n]
                     /\ s.labels = parseLabels(seen)
            /\ ( /\ in["AirTemperature"] = 15 /\ in["AirTemperatureIndoor"] = 18
                 /\ in["RelativeHumidity"] = 80 /\ in["RelativeHumidityIndoor"] = 0
                 /\ seen.StationId = 42 )
               => /\ metrics["air_temperature"].value = 18
                  /\ metrics["relative_humidity"].value = 80
                  /\ metrics["air_temperature"].labels["station_id"] = "42"
                  /\ metrics["relative_humidity"].labels["station_id"] = "42"

C3_Witness ==
    /\ Len(gor) = 1 /\ AfterApply(1)
    /\ seen.StationId = 42
    /\ seen.Obs[1]["AirTemperature"] = 15 /\ seen.Obs[1]["AirTemperatureIndoor"] = 18
    /\ seen.Obs[1]["RelativeHumidity"] = 80
    /\ metrics["air_temperature"].value = 18
    /\ pre["air_temperature"].set /\ pre["air_temperature"].value = 15
    /\ pre["relative_humidity"].value = 0
    /\ pre["air_temperature"].labels["station_id"] = "7"

\* C4: a cycle whose fetch succeeds with no observation is not fatal and sets
\* nothing: the loop goes to its sleep with every series as it was.
C4_EmptyCycle ==
    \A g \in DOMAIN gor :
      ( /\ lastOutcome.at = "loop" /\ lastOutcome.net = "ok" /\ lastOutcome.body = "json"
        /\ Len(seen.Obs) = 0
        /\ gor[g].pc # "fetch" )
      => /\ gor[g].pc = "sleep"
         /\ metrics = pre
         /\ exit # "fatal"

C4_Witness ==
    /\ Len(gor) = 1 /\ gor[1].pc = "sleep"
    /\ lastOutcome.at = "loop" /\ lastOutcome.net = "ok" /\ lastOutcome.status = 200
    /\ Len(seen.Obs) = 0
    /\ metrics["air_temperature"].set /\ metrics["air_temperature"].value = 18
    /\ metrics = pre
    /\ exit = ""

\* C5 as claimed: in the refresh loop a network failure, a reply that is not
\* 2xx, or a body that is not JSON terminates the process.
C5_AnyFailureFatal ==
    ( /\ lastOutcome.at = "loop"
      /\ \/ lastOutcome.net = "error"
         \/ lastOutcome.net = "ok" /\ lastOutcome.status \notin 200..299
         \/ lastOutcome.body = "malformed" )
    => exit = "fatal"

\* C5 as amended: in the refresh loop a network failure or a body that fails
\* to decode as JSON terminates the process in that cycle, with no overlay
\* and no update of any series; the status code of the reply is not looked at,
\* so a reply that is not 2xx but carries JSON is handled as a successful fetch.
C5_FetchErrorFatal ==
    /\ ( /\ lastOutcome.at = "loop"
         /\ (lastOutcome.net = "error" \/ lastOutcome.body = "malformed") )
       => /\ exit = "fatal"
          /\ metrics = pre
          /\ \A g \in DOMAIN gor : gor[g].pc = "fetch" /\ gor[g].o = ZeroObservation
    /\ ( /\ lastOutcome.at = "loop"
         /\ lastOutcome.net = "ok" /\ lastOutcome.body = "json" )
       => exit # "fatal"

C5_Witness ==
    /\ exit = "fatal"
    /\ lastOutcome.at = "loop" /\ lastOutcome.body = "malformed"
    /\ Len(gor) = 1 /\ gor[1].pc = "fetch"
    /\ metrics["air_temperature"].set /\ metrics["air_temperature"].value = 15

\* C6: once init has run, the registry holds exactly one series per numeric
\* base field, in every state and in everything a scrape reads.
C6_ShapeStable ==
    mainPc # "init" =>
      /\ Cardinality(DOMAIN metrics) = Len(SeriesOrder)
      /\ DOMAIN metrics = SeriesTags
      /\ DOMAIN scraped # {} => Cardinality(DOMAIN scraped) = Len(SeriesOrder)

C6_Witness ==
    /\ Len(gor) = 1 /\ AfterApply(1)
    /\ Cardinality(DOMAIN metrics) = Len(SeriesOrder)
    /\ pre["wind_lull"].set
    /\ pre["wind_lull"].labels["station_id"] = "42"
    /\ metrics["wind_lull"].labels["station_id"] = "7"

\* C7: when an apply has completed, every series carries exactly the label
\* values of the response of that cycle, and none carries label values of the
\* apply before that differ from them.
C7_LabelsPropagate ==
    \A g \in DOMAIN gor :
      AfterApply(g) =>
        \A t \in DOMAIN metrics :
          LET l == metrics[t].labels
          IN  /\ DOMAIN l = LabelKeys
              /\ l["station_id"] = Itoa(seen.StationId)
              /\ l["station_name"] = seen.StationName
              /\ l["public_name"] = seen.PublicName
              /\ l["latitude"] = FormatFloat(seen.Latitude)
              /\ l["longitude"] = FormatFloat(seen.Longitude)
              /\ l["timezone"] = seen.Timezone
              /\ l["elevation"] = FormatFloat(seen.Elevation)
              /\ \A u \in DOMAIN pre :
                    (pre[u].set /\ pre[u].labels # labels) => l # pre[u].labels

C7_Witness ==
    /\ Len(gor) = 1 /\ AfterApply(1)
    /\ pre["uv"].set /\ pre["uv"].labels["station_name"] = "Home"
    /\ metrics["uv"].labels["station_name"] = "Barn"
    /\ metrics["uv"].labels["latitude"] = "-8E+00"
    /\ metrics["uv"].labels["station_id"] = "7"

\* C9: metrics.Register runs at most once, in init, before the refresh loop,
\* any SetAll and any scrape; the registry never goes back to having no
\* series; a missing token or station, or a failed first fetch, stops the
\* process before Register.
C9_Lifecycle ==
    /\ registerCount <= 1
    /\ mainPc = "init" =>
         /\ registerCount = 0 /\ DOMAIN metrics = {}
         /\ gor = <<>> /\ DOMAIN scraped = {}
    /\ mainPc # "init" => registerCount = 1 /\ DOMAIN metrics # {}
    /\ (\E t \in DOMAIN metrics : metrics[t].set) => registerCount = 1
    /\ (token = "" \/ station = "") => (mainPc = "init" /\ registerCount = 0)
    /\ ( /\ lastOutcome.at = "init"
         /\ (lastOutcome.net = "error" \/ lastOutcome.body = "malformed") )
       => (exit = "fatal" /\ mainPc = "init" /\ registerCount = 0)

C9_Witness ==
    /\ registerCount = 1 /\ mainPc = "serving"
    /\ DOMAIN scraped # {}
    /\ metrics["air_temperature"].set
    /\ Len(gor) = 1 /\ gor[1].pc = "fetch"

\* C10: there is one refresh loop and its cycles do not overlap: a fetch starts
\* only from the end of the sleep of the cycle before, and while an apply is
\* running the only other steps are scrapes (or the end of the process), which
\* leave the registry and the labels alone.
C10_SingleLoop ==
    [][ /\ Len(gor') <= 1
        /\ Cardinality({g \in DOMAIN gor' : gor'[g].pc # "fetch"}) <= 1
        /\ \A g \in DOMAIN gor :
             /\ (gor[g].pc # "fetch" /\ gor'[g].pc = "fetch") => gor[g].pc = "sleep"
             /\ (gor[g].pc = "apply" /\ gor'[g] = gor[g]) =>
                   /\ metrics' = metrics /\ labels' = labels
                   /\ (scraped' = metrics \/ exit' = "returned")
      ]_vars

C10_Witness ==
    /\ Len(gor) = 1 /\ gor[1].pc = "apply" /\ gor[1].i > 1
    /\ scraped = metrics
    /\ metrics["air_density"].set /\ ~metrics["wind_lull"].set

====
